---- MODULE Spec2Model ----
(***************************************************************************)
(* Model of geomagio/algorithm/AdjustedAlgorithm.py: the state store       *)
(* (load_state / save_state / configure), the transform engine (process,   *)
(* create_trace) and the availability check (can_produce_data).            *)
(*                                                                         *)
(* Numbers are integers standing for the floats the program holds.  Text   *)
(* (dictionary keys, JSON number tokens) is a sequence of one-character    *)
(* strings, so that str(), string comparison and int() are computed as     *)
(* Python computes them.  A matrix is a sequence of rows.                  *)
(***************************************************************************)
EXTENDS Integers, Sequences, FiniteSets, TLC

VARIABLES
    inchannels,       \* Algorithm._inchannels
    outchannels,      \* Algorithm._outchannels
    matrix,           \* self.matrix
    pier_correction,  \* self.pier_correction
    statefile,        \* self.statefile (None or a path)
    data_type,        \* self.data_type (None or a tag)
    location,         \* self.location (None or a tag)
    file,             \* what the file system holds at the state-file path
    lastOp,           \* the method that ran last
    raised,           \* the exception that call raised, "none" if it returned
    diag,             \* what that call wrote to sys.stderr
    loadBranch,       \* where the most recent load_state left its body
    stream,           \* argument of the last process call
    out,              \* stream returned by the last process call
    covered,          \* channels with full coverage in the last can_produce_data call
    produced          \* value returned by the last can_produce_data call

vars == <<inchannels, outchannels, matrix, pier_correction, statefile,
          data_type, location, file, lastOp, raised, diag, loadBranch,
          stream, out, covered, produced>>

\* Largest dimension of a matrix handed to the constructor.
MaxDim == 10
\* Largest dimension of a state record found on disk at start.
MaxFileDim == 3
\* Largest number of samples per trace.
MaxSamples == 2

None == "None"
StatePath == "adjusted_state.json"

(***************************************************************************)
(* Python text primitives                                                  *)
(***************************************************************************)
Digits == <<"0", "1", "2", "3", "4", "5", "6", "7", "8", "9">>

DigitValues == [c \in {Digits[d] : d \in 1..10} |->
                   (CHOOSE d \in 1..10 : Digits[d] = c) - 1]

IsDigit(c) == c \in DOMAIN DigitValues

\* int(c) for a one-character string holding a digit
IntOfChar(c) == DigitValues[c]

OrdTable == [c \in (DOMAIN DigitValues) \cup {"-", "C", "M", "P"} |->
                IF c \in DOMAIN DigitValues THEN 48 + DigitValues[c]
                ELSE CASE c = "-" -> 45
                       [] c = "C" -> 67
                       [] c = "M" -> 77
                       [] c = "P" -> 80]

\* ord(c) for the characters that occur in keys and number tokens
Ord(c) == OrdTable[c]

\* str(n) for an integer n >= 0
RECURSIVE Str(_)
Str(n) ==
    IF n < 10 THEN <<Digits[n + 1]>>
    ELSE Str(n \div 10) \o <<Digits[(n % 10) + 1]>>

\* a < b on Python strings
RECURSIVE LexLess(_, _)
LexLess(a, b) ==
    IF a = <<>> THEN b # <<>>
    ELSE IF b = <<>> THEN FALSE
    ELSE IF Ord(a[1]) # Ord(b[1]) THEN Ord(a[1]) < Ord(b[1])
    ELSE LexLess(Tail(a), Tail(b))

\* max() scanning the strings left to right, best being the greatest so far
RECURSIVE MaxFrom(_, _)
MaxFrom(best, rest) ==
    IF rest = {} THEN best
    ELSE LET k == CHOOSE x \in rest : TRUE
         IN MaxFrom(IF LexLess(best, k) THEN k ELSE best, rest \ {k})

\* max(keys) on a non-empty list of distinct strings
PyMax(keys) == LET k == CHOOSE x \in keys : TRUE IN MaxFrom(k, keys \ {k})

\* json.dumps of a number
NumText(v) == IF v < 0 THEN <<"-">> \o Str(0 - v) ELSE Str(v)

RECURSIVE DigitsValue(_)
DigitsValue(t) ==
    IF t = <<>> THEN 0
    ELSE 10 * DigitsValue(SubSeq(t, 1, Len(t) - 1)) + IntOfChar(t[Len(t)])

\* np.float64 of a number token read by json.loads
Float64(t) == IF t[1] = "-" THEN 0 - DigitsValue(Tail(t)) ELSE DigitsValue(t)

(***************************************************************************)
(* Matrices and the persisted record                                       *)
(***************************************************************************)
\* np.eye(n)
Eye(n) == [i \in 1..n |-> [j \in 1..n |-> IF i = j THEN 1 ELSE 0]]

Rows(m) == Len(m)
Cols(m) == IF Len(m) = 0 THEN 0 ELSE Len(m[1])
IsSquare(m) == \A i \in 1..Len(m) : Len(m[i]) = Len(m)

KeyPC == <<"P", "C">>

\* "M" + str(i + 1) + str(j + 1), for 0-based i and j
Key(i, j) == <<"M">> \o Str(i + 1) \o Str(j + 1)

\* the (i, j) pairs of  for i in range(length): for j in range(length)
Cells(length) == (0..(length - 1)) \X (0..(length - 1))

\* c is visited no later than d by the nested loops
RowMajorLeq(c, d) == c[1] < d[1] \/ (c[1] = d[1] /\ c[2] <= d[2])

\* the dictionary save_state builds, cell idx onwards (cells counted in
\* loop order): a later assignment to a key replaces an earlier one
RECURSIVE SaveCells(_, _, _, _)
SaveCells(m, length, idx, data) ==
    IF idx >= length * length THEN data
    ELSE LET i == idx \div length
             j == idx % length
         IN SaveCells(m, length, idx + 1,
                      (Key(i, j) :> NumText(m[i + 1][j + 1])) @@ data)

\* the dictionary save_state hands to json.dumps
SaveData(m, pc) == SaveCells(m, Cols(m), 0, KeyPC :> NumText(pc))

NoData == [k \in {} |-> <<>>]

Absent == [kind |-> "absent", data |-> NoData]       \* no such file
Denied == [kind |-> "denied", data |-> NoData]       \* permission denied
Failing == [kind |-> "ioerror", data |-> NoData]     \* opens, read fails
EmptyFile == [kind |-> "empty", data |-> NoData]     \* zero-length content
EmptyString == [kind |-> "string", data |-> NoData]  \* the JSON text ""
ObjectFile(d) == [kind |-> "object", data |-> d]     \* a JSON object

\* open(self.statefile, "r") raises IOError
OpenRaises(f) == f.kind \in {"absent", "denied"}

(***************************************************************************)
(* load_state                                                              *)
(***************************************************************************)
\* np.eye(len(self.get_input_channels()))
DefaultMatrixFixed(inch) == Eye(4)
DefaultMatrix(inch) == Eye(Len(inch))

\* the except clause of load_state: which exceptions it handles
CaughtNothing(exc) == FALSE
CaughtByExcept(exc) == exc = "IOError"

\* what the with-block raises: open() or f.read() fails with IOError,
\* json.loads of zero-length text fails with ValueError (JSONDecodeError)
ReadRaises(f) ==
    IF OpenRaises(f) \/ f.kind = "ioerror" THEN "IOError"
    ELSE IF f.kind = "empty" THEN "ValueError"
    ELSE "none"

\* int(max(keys)[-1])
LastChar(t) == t[Len(t)]
InferLength(keys) == IntOfChar(LastChar(PyMax(keys)))

\* the body of load_state from data.pop("PC") on; d0 holds the defaults
\* already assigned
LoadRecord(data, d0) ==
    IF KeyPC \notin DOMAIN data
    THEN [d0 EXCEPT !.raised = "KeyError", !.branch = "record"]
    ELSE
      LET pc == Float64(data[KeyPC])
          keys == (DOMAIN data) \ {KeyPC}
          d1 == [d0 EXCEPT !.pier_correction = pc, !.branch = "record"]
      IN
      IF keys = {} \/ ~IsDigit(LastChar(PyMax(keys)))
      THEN [d1 EXCEPT !.raised = "ValueError"]
      ELSE
        LET length == InferLength(keys)
            missing == {c \in Cells(length) : Key(c[1], c[2]) \notin keys}
            Cell(i, j) == Float64(data[Key(i, j)])
        IN
        IF missing = {}
        THEN [d1 EXCEPT !.matrix =
                 [i \in 1..length |-> [j \in 1..length |-> Cell(i - 1, j - 1)]]]
        ELSE
          LET first == CHOOSE c \in missing :
                          \A d \in missing : RowMajorLeq(c, d)
          IN [d1 EXCEPT
                !.raised = "KeyError",
                !.matrix = [i \in 1..length |-> [j \in 1..length |->
                    IF RowMajorLeq(<<i - 1, j - 1>>, first)
                       /\ <<i - 1, j - 1>> # first
                    THEN Cell(i - 1, j - 1)
                    ELSE Eye(length)[i][j]]]]

\* load_state as a function of the input channels, self.statefile and the
\* file: the fields it leaves, the exception it raises, its stderr output
LoadOutcome(inch, sf, f) ==
    LET d0 == [matrix |-> DefaultMatrix(inch), pier_correction |-> 0,
               raised |-> "none", diag |-> <<>>, branch |-> "nofile"]
        exc == ReadRaises(f)
    IN
    IF sf = None THEN d0
    ELSE IF exc # "none"
    THEN IF CaughtByExcept(exc)
         THEN [d0 EXCEPT !.diag = <<"I/O error">>, !.branch = "nodata"]
         ELSE [d0 EXCEPT !.raised = exc, !.branch = "nodata"]
    ELSE IF f.kind = "string" THEN [d0 EXCEPT !.branch = "nodata"]
    ELSE LoadRecord(f.data, d0)

\* the arguments process and can_produce_data last saw are forgotten by
\* the other methods
NoCallData ==
    /\ stream' = <<>>
    /\ out' = <<>>
    /\ covered' = {}
    /\ produced' = FALSE

LoadState ==
    LET o == LoadOutcome(inchannels, statefile, file) IN
    /\ matrix' = o.matrix
    /\ pier_correction' = o.pier_correction
    /\ raised' = o.raised
    /\ diag' = o.diag
    /\ loadBranch' = o.branch
    /\ lastOp' = "load_state"
    /\ NoCallData
    /\ UNCHANGED <<inchannels, outchannels, statefile, data_type, location, file>>

(***************************************************************************)
(* save_state                                                              *)
(***************************************************************************)
SaveState ==
    /\ lastOp' = "save_state"
    /\ diag' = <<>>
    /\ NoCallData
    /\ IF statefile = None
       THEN /\ raised' = "none"
            /\ file' = file
       ELSE IF Rows(matrix) = 0
       THEN /\ raised' = "IndexError"     \* self.matrix[0, :] on an empty matrix
            /\ file' = file
       ELSE IF file.kind = "denied"
       THEN /\ raised' = "IOError"        \* open(self.statefile, "w")
            /\ file' = file
       ELSE /\ raised' = "none"
            /\ file' = ObjectFile(SaveData(matrix, pier_correction))
    /\ UNCHANGED <<inchannels, outchannels, matrix, pier_correction, statefile,
                   data_type, location, loadBranch>>

(***************************************************************************)
(* configure                                                               *)
(***************************************************************************)
Mapping(ins, outs) == [inputs |-> ins, outputs |-> outs]

\* Algorithm.configure: the channel lists the arguments name
BaseConfigure(mp) == [inchannels |-> mp.inputs, outchannels |-> mp.outputs]

\* configure: the base class stores the channel lists, then the state
\* file option is stored and load_state runs
Configure(mp, sf) ==
    LET base == BaseConfigure(mp)
        o == LoadOutcome(base.inchannels, sf, file)
    IN
    /\ inchannels' = base.inchannels
    /\ outchannels' = base.outchannels
    /\ statefile' = sf
    /\ matrix' = o.matrix
    /\ pier_correction' = o.pier_correction
    /\ raised' = o.raised
    /\ diag' = o.diag
    /\ loadBranch' = o.branch
    /\ lastOp' = "configure"
    /\ NoCallData
    /\ UNCHANGED <<data_type, location, file>>

(***************************************************************************)
(* The state store: construction, then any sequence of configure,          *)
(* load_state and save_state                                               *)
(***************************************************************************)
StoreMappings ==
    { Mapping(<<"H", "E", "Z", "F">>, <<"X", "Y", "Z", "F">>),
      Mapping(<<"H", "E", "F">>, <<"X", "Y", "F">>),
      Mapping(<<"H", "E">>, <<"X", "Y">>) }

\* every cell differs from every other
Coded(n) == [i \in 1..n |-> [j \in 1..n |-> 100 * i + j]]

\* identity plus a bias column
Affine(n) == [i \in 1..n |-> [j \in 1..n |->
                 IF i = j THEN 1 ELSE IF j = n THEN 0 - 5 ELSE 0]]

StoreMatrices == {Coded(n) : n \in 1..MaxDim} \cup {Affine(n) : n \in 2..4}

PierCorrections == {0 - 3, 25}

Restrict(d, ks) == [k \in ks |-> d[k]]

\* the records a state file may hold at start: complete ones, and ones
\* with keys missing
StartRecords ==
    UNION { LET d == SaveData(Coded(n), 7)
                all == DOMAIN d
            IN {d, Restrict(d, all \ {KeyPC}), Restrict(d, {KeyPC}),
                Restrict(d, {KeyPC, Key(0, 0), Key(n - 1, 0)}),
                Restrict(d, {KeyPC, Key(0, 0), Key(0, n - 1)}),
                Restrict(d, all \ {Key(0, n - 1)}),
                Restrict(d, all \ {Key(n - 1, n - 1)})}
          : n \in 1..MaxFileDim }

StartFiles ==
    {Absent, Denied, Failing, EmptyFile, EmptyString} \cup {ObjectFile(d) : d \in StartRecords}

\* __init__: with matrix=None the constructor runs load_state, and yields
\* an instance only if that returns
InitStore ==
    \E mp \in StoreMappings, sf \in {None, StatePath}, f \in StartFiles,
       given \in BOOLEAN, m \in StoreMatrices, pc \in PierCorrections :
        LET o == LoadOutcome(mp.inputs, sf, f) IN
        /\ given \/ o.raised = "none"
        /\ inchannels = mp.inputs
        /\ outchannels = mp.outputs
        /\ statefile = sf
        /\ file = f
        /\ matrix = IF given THEN m ELSE o.matrix
        /\ pier_correction = IF given THEN pc ELSE o.pier_correction
        /\ diag = IF given THEN <<>> ELSE o.diag
        /\ loadBranch = IF given THEN "none" ELSE o.branch
        /\ raised = "none"
        /\ lastOp = "__init__"
        /\ data_type = None
        /\ location = None
        /\ stream = <<>>
        /\ out = <<>>
        /\ covered = {}
        /\ produced = FALSE

NextStore ==
    \/ LoadState
    \/ SaveState
    \/ \E mp \in StoreMappings, sf \in {None, StatePath} : Configure(mp, sf)

SpecStore == InitStore /\ [][NextStore]_vars

(***************************************************************************)
(* create_trace and process                                                *)
(***************************************************************************)
\* Algorithm.create_trace: the cloned stats get the channel code
BaseCreateTrace(channel, stats, data) ==
    [stats |-> [stats EXCEPT !.channel = channel], data |-> data]

\* the data_type create_trace writes
TraceDataType == IF data_type = None THEN "adjusted" ELSE data_type

\* the location create_trace writes
TraceLocation == IF data_type = None THEN "A0" ELSE location

CreateTrace(channel, stats, data) ==
    BaseCreateTrace(channel,
                    [stats EXCEPT !.data_type = TraceDataType,
                                  !.location = TraceLocation],
                    data)

\* stream.select(channel=c)
Select(st, c) == LET Named(t) == t.stats.channel = c IN SelectSeq(st, Named)

\* [channel for channel in inchannels if channel != "F"]
NonF(chans) == LET NotF(c) == c # "F" IN SelectSeq(chans, NotF)

\* np.ones_like(data)
OnesLike(data) == [t \in 1..Len(data) |-> 1]

\* sum over j = 1..n of row[j] * raws[j][t]
RECURSIVE Dot(_, _, _, _)
Dot(row, raws, t, n) ==
    IF n = 0 THEN 0 ELSE Dot(row, raws, t, n - 1) + row[n] * raws[n][t]

\* np.matmul(m, raws) for conforming shapes
MatMul(m, raws) ==
    [i \in 1..Rows(m) |->
        [t \in 1..Len(raws[1]) |-> Dot(m[i], raws, t, Len(raws))]]

Raise(exc) == [raised |-> exc, out |-> <<>>]

\* which input channel rows the output traces are built from:
\* range(len(adjusted) - 1)
OutputRows(adjusted) == 1..(Len(adjusted) - 1)

\* process as a function of the stream: the exception raised or the
\* stream returned
ProcessOutcome(st) ==
    LET nonF == NonF(inchannels) IN
    IF st = <<>> \/ \E k \in 1..Len(nonF) : Select(st, nonF[k]) = <<>>
    THEN Raise("IndexError")
    ELSE
      LET raws == [k \in 1..Len(nonF) |-> Select(st, nonF[k])[1].data]
                  \o <<OnesLike(st[1].data)>>
      IN
      IF \E k \in 1..Len(raws) : Len(raws[k]) # Len(raws[1])
      THEN Raise("ValueError")            \* np.vstack
      ELSE IF Cols(matrix) # Len(raws)
      THEN Raise("ValueError")            \* np.matmul
      ELSE
        LET adjusted == MatMul(matrix, raws)
            rows == OutputRows(adjusted)
        IN
        IF \E i \in rows : \/ i > Len(outchannels)
                           \/ i > Len(inchannels)
                           \/ Select(st, inchannels[i]) = <<>>
        THEN Raise("IndexError")
        ELSE
          LET traces == [i \in rows |->
                  CreateTrace(outchannels[i],
                              Select(st, inchannels[i])[1].stats,
                              adjusted[i])]
              InList(chans, c) == \E k \in 1..Len(chans) : chans[k] = c
          IN
          IF InList(inchannels, "F") /\ InList(outchannels, "F")
          THEN IF Select(st, "F") = <<>>
               THEN Raise("IndexError")
               ELSE LET f == Select(st, "F")[1] IN
                    [raised |-> "none",
                     out |-> traces \o
                        <<CreateTrace("F", f.stats,
                            [t \in 1..Len(f.data) |-> f.data[t] + pier_correction])>>]
          ELSE [raised |-> "none", out |-> traces]

Process(st) ==
    LET o == ProcessOutcome(st) IN
    /\ stream' = st
    /\ out' = o.out
    /\ raised' = o.raised
    /\ lastOp' = "process"
    /\ diag' = <<>>
    /\ covered' = {}
    /\ produced' = FALSE
    /\ UNCHANGED <<inchannels, outchannels, matrix, pier_correction, statefile,
                   data_type, location, file, loadBranch>>

(***************************************************************************)
(* The transform engine: construction, then any sequence of process calls  *)
(***************************************************************************)
ProcessMappings ==
    { Mapping(<<"H", "E", "Z", "F">>, <<"X", "Y", "Z", "F">>),
      Mapping(<<"H", "E", "F">>, <<"X", "Y", "F">>),
      Mapping(<<"F", "H", "E">>, <<"F", "X", "Y">>),
      Mapping(<<"H", "F", "E">>, <<"X", "F", "Y">>),
      Mapping(<<"H", "E", "F">>, <<"X", "Y", "Z">>),
      Mapping(<<"H", "E">>, <<"X", "Y">>),
      Mapping(<<"F">>, <<"F">>) }

ProcessMatrices == {m \in StoreMatrices : Rows(m) <= 4}

ChannelBase == [c \in {"H", "E", "Z", "F"} |->
                   CASE c = "H" -> 2 [] c = "E" -> 3 [] c = "Z" -> 5 [] c = "F" -> 7]

\* an input trace: its samples differ from every other channel's
InputTrace(c, T, seed) ==
    [stats |-> [station |-> "BOU", channel |-> c, location |-> "R0",
                data_type |-> "variation", comments |-> <<"raw", c>>],
     data |-> [t \in 1..T |-> ChannelBase[c] * (t + seed)]]

\* batches of equal-length traces: all of H, E, Z, F, or all but one
InputStreams ==
    { LET Kept(c) == c # drop
      IN [k \in 1..Len(SelectSeq(<<"H", "E", "Z", "F">>, Kept)) |->
             InputTrace(SelectSeq(<<"H", "E", "Z", "F">>, Kept)[k], T, seed)]
      : drop \in {"none", "H", "E", "Z", "F"}, T \in 1..MaxSamples, seed \in 0..1 }

InitProcess ==
    \E mp \in ProcessMappings, given \in BOOLEAN, m \in ProcessMatrices,
       pc \in PierCorrections, dt \in {None, "definitive"}, loc \in {None, "A1"} :
        LET o == LoadOutcome(mp.inputs, None, Absent) IN
        /\ inchannels = mp.inputs
        /\ outchannels = mp.outputs
        /\ statefile = None
        /\ file = Absent
        /\ matrix = IF given THEN m ELSE o.matrix
        /\ pier_correction = IF given THEN pc ELSE o.pier_correction
        /\ diag = <<>>
        /\ loadBranch = IF given THEN "none" ELSE o.branch
        /\ raised = "none"
        /\ lastOp = "__init__"
        /\ data_type = dt
        /\ location = loc
        /\ stream = <<>>
        /\ out = <<>>
        /\ covered = {}
        /\ produced = FALSE

NextProcess == \E st \in InputStreams : Process(st)

SpecProcess == InitProcess /\ [][NextProcess]_vars

(***************************************************************************)
(* can_produce_data                                                        *)
(***************************************************************************)
\* Algorithm.can_produce_data on stream.select(channel=c): the channel
\* has full coverage of the requested interval
HasCoverage(c, cov) == c \in cov

\* np.all([... for chan in chans])
AllCovered(chans, cov) == \A k \in 1..Len(chans) : HasCoverage(chans[k], cov)

\* "c" in channels
InChannels(channels, c) == \E k \in 1..Len(channels) : channels[k] = c

CanProduceAllOnly(channels, cov) == AllCovered(channels, cov)
CanProduceData(channels, cov) ==
    IF InChannels(channels, "F") /\ HasCoverage("F", cov)
    THEN TRUE
    ELSE IF /\ InChannels(channels, "H")
            /\ InChannels(channels, "E")
            /\ InChannels(channels, "Z")
            /\ AllCovered(<<"H", "E", "Z">>, cov)
    THEN TRUE
    ELSE IF AllCovered(channels, cov)
    THEN TRUE
    ELSE FALSE

CanProduce(cov) ==
    /\ covered' = cov
    /\ produced' = CanProduceData(inchannels, cov)
    /\ lastOp' = "can_produce_data"
    /\ raised' = "none"
    /\ diag' = <<>>
    /\ stream' = <<>>
    /\ out' = <<>>
    /\ UNCHANGED <<inchannels, outchannels, matrix, pier_correction, statefile,
                   data_type, location, file, loadBranch>>

(***************************************************************************)
(* The availability check: construction, then any sequence of              *)
(* can_produce_data calls                                                  *)
(***************************************************************************)
AvailMappings ==
    ProcessMappings \cup
    { Mapping(<<"H", "E", "Z">>, <<"X", "Y", "Z">>),
      Mapping(<<"X", "Y", "Z", "F">>, <<"H", "E", "Z", "F">>),
      Mapping(<<"X", "Y">>, <<"H", "E">>),
      Mapping(<<"H", "Z">>, <<"X", "Z">>) }

AllChannels == {"H", "E", "Z", "F", "X", "Y"}

InitAvail ==
    \E mp \in AvailMappings :
        LET o == LoadOutcome(mp.inputs, None, Absent) IN
        /\ inchannels = mp.inputs
        /\ outchannels = mp.outputs
        /\ statefile = None
        /\ file = Absent
        /\ matrix = o.matrix
        /\ pier_correction = o.pier_correction
        /\ diag = <<>>
        /\ loadBranch = o.branch
        /\ raised = "none"
        /\ lastOp = "__init__"
        /\ data_type = None
        /\ location = None
        /\ stream = <<>>
        /\ out = <<>>
        /\ covered = {}
        /\ produced = FALSE

NextAvail == \E cov \in SUBSET AllChannels : CanProduce(cov)

SpecAvail == InitAvail /\ [][NextAvail]_vars

(***************************************************************************)
(* Properties of the state store                                           *)
(***************************************************************************)
\* load_state has run in the call that ended last
LoadRan ==
    \/ lastOp \in {"load_state", "configure"}
    \/ lastOp = "__init__" /\ loadBranch # "none"

\* C1: a save_state that returns, followed at once by load_state, leaves
\* the instance with the matrix and pier correction it saved, for every
\* square matrix of dimension N >= 1.
C1_RoundTrip ==
    [][ ( /\ lastOp = "save_state" /\ raised = "none" /\ statefile # None
          /\ IsSquare(matrix) /\ Rows(matrix) >= 1
          /\ lastOp' = "load_state" )
        => ( /\ raised' = "none"
             /\ matrix' = matrix
             /\ pier_correction' = pier_correction ) ]_vars

\* C5: with a state file configured that cannot be read (missing,
\* permission denied, read failure), load_state returns without raising,
\* writes a diagnostic, and leaves the identity matrix sized to the input
\* channels and pier correction 0.
C5_UnreadableFallsBack ==
    (LoadRan /\ statefile # None /\ ReadRaises(file) = "IOError")
    => ( /\ raised = "none"
         /\ diag # <<>>
         /\ matrix = Eye(Len(inchannels))
         /\ pier_correction = 0 )

\* C5 witness: load_state was called on an instance whose state file is
\* missing, with three input channels.
C5_Witness ==
    /\ lastOp = "load_state" /\ statefile # None /\ file.kind = "absent"
    /\ Len(inchannels) = 3 /\ diag # <<>>

\* C6: with a readable, zero-length state file, load_state returns
\* without raising and leaves the default identity matrix and correction 0.
C6_EmptyFileDefaults ==
    (LoadRan /\ statefile # None /\ file.kind = "empty")
    => ( /\ raised = "none"
         /\ matrix = Eye(Len(inchannels))
         /\ pier_correction = 0 )

\* the "M<r><c>" keys of a record
MKeys(data) == (DOMAIN data) \ {KeyPC}

\* every matrix key is "M" followed by one row digit and one column digit
SingleDigitKeys(data) ==
    \A k \in MKeys(data) :
        Len(k) = 3 /\ k[1] = "M" /\ IsDigit(k[2]) /\ IsDigit(k[3])

\* the greatest row or column digit in any matrix key
MaxDigit(data) ==
    CHOOSE n \in 0..9 :
        /\ \E k \in MKeys(data) : IntOfChar(k[2]) = n \/ IntOfChar(k[3]) = n
        /\ \A k \in MKeys(data) : IntOfChar(k[2]) <= n /\ IntOfChar(k[3]) <= n

\* C7: a non-empty record lacking some key "M<i><j>" with 1 <= i, j <= N,
\* N the greatest row or column digit among its keys, makes load_state
\* raise a lookup error.
C7_IncompleteRecordRaises ==
    ( /\ LoadRan /\ statefile # None /\ file.kind = "object"
      /\ MKeys(file.data) # {} /\ SingleDigitKeys(file.data)
      /\ \E c \in Cells(MaxDigit(file.data)) :
             Key(c[1], c[2]) \notin DOMAIN file.data )
    => raised = "KeyError"

\* C10: once load_state has run, the matrix is square with dimension the
\* number of configured input channels.
C10_DimensionIsInputCount ==
    (loadBranch # "none" /\ raised = "none")
    => (IsSquare(matrix) /\ Rows(matrix) = Len(inchannels))

\* C10 as amended: once load_state has run, the matrix is square; its
\* dimension is the number of configured input channels when the most
\* recent load_state got no record (no state file configured, file
\* unreadable, or the JSON empty string), and when load_state has just
\* returned with a record it is the dimension inferred from the record.
C10_DimensionAmended ==
    (loadBranch # "none")
    => ( /\ IsSquare(matrix)
         /\ loadBranch \in {"nofile", "nodata"} => Rows(matrix) = Len(inchannels)
         /\ (loadBranch = "record" /\ LoadRan /\ raised = "none")
                => Rows(matrix) = InferLength(MKeys(file.data)) )

\* C10 witness: configure loaded a record whose dimension is not the
\* number of input channels.
C10_Witness ==
    /\ lastOp = "configure" /\ loadBranch = "record" /\ raised = "none"
    /\ Rows(matrix) = 2 /\ Len(inchannels) = 4

(***************************************************************************)
(* Properties of the transform engine                                      *)
(***************************************************************************)
\* the positions of code c in a channel list
Positions(chans, c) == {k \in 1..Len(chans) : chans[k] = c}

\* inputs and outputs have equal length and hold one "F" each, at the
\* same position
OneFSamePlace ==
    /\ Len(inchannels) = Len(outchannels)
    /\ Cardinality(Positions(inchannels, "F")) = 1
    /\ Positions(outchannels, "F") = Positions(inchannels, "F")

\* the batch holds one trace for every input channel
HoldsAllInputs(st) ==
    \A i \in 1..Len(inchannels) : Len(Select(st, inchannels[i])) = 1

\* the samples the batch holds for channel c
InputData(st, c) == Select(st, c)[1].data

\* the traces of the returned stream named c
Named(c) == {k \in 1..Len(out) : out[k].stats.channel = c}

\* C2: with the identity matrix sized to the inputs and correction 0, and
\* a batch holding every input channel, process returns for every non-F
\* input position i a channel named outputs[i] with the samples of
\* inputs[i], and an F channel with the samples of the F input.
C2_IdentityCalibration ==
    ( /\ lastOp = "process"
      /\ matrix = Eye(Len(inchannels)) /\ pier_correction = 0
      /\ OneFSamePlace /\ HoldsAllInputs(stream) )
    => ( /\ raised = "none"
         /\ \A i \in 1..Len(inchannels) :
               /\ Named(outchannels[i]) # {}
               /\ \A k \in Named(outchannels[i]) :
                      out[k].data = InputData(stream, inchannels[i]) )

\* C3: process returns a channel "F" exactly when "F" is among the inputs
\* and among the outputs, and every such channel holds the F input's
\* samples plus the pier correction, whatever the matrix.
C3_FOutputIsFPlusCorrection ==
    (lastOp = "process" /\ raised = "none")
    => ( /\ (Named("F") # {})
               <=> (Positions(inchannels, "F") # {} /\ Positions(outchannels, "F") # {})
         /\ \A k \in Named("F") :
               /\ Select(stream, "F") # <<>>
               /\ out[k].data = [t \in 1..Len(InputData(stream, "F")) |->
                                    InputData(stream, "F")[t] + pier_correction] )

\* the row of matrix x raws that belongs to the input at position i: the
\* non-F inputs are stacked in input order
TransformedRow(st, i) ==
    LET nonF == NonF(inchannels)
        raws == [k \in 1..Len(nonF) |-> InputData(st, nonF[k])]
                \o <<OnesLike(st[1].data)>>
        rank == Cardinality({k \in 1..i : inchannels[k] # "F"})
    IN [t \in 1..Len(raws[1]) |-> Dot(matrix[rank], raws, t, Len(raws))]

\* C8: for a mapping with one "F" at the same position of inputs and
\* outputs, a matrix of matching dimension and a batch holding all
\* inputs, process returns exactly one channel per output code, and the
\* one named outputs[i], i not the F position, holds the transformed data
\* and the cloned metadata of inputs[i].
C8_OneChannelPerOutput ==
    ( /\ lastOp = "process"
      /\ OneFSamePlace /\ HoldsAllInputs(stream)
      /\ IsSquare(matrix) /\ Rows(matrix) = Len(inchannels) )
    => ( /\ raised = "none"
         /\ Len(out) = Len(outchannels)
         /\ \A i \in 1..Len(outchannels) :
               /\ Cardinality(Named(outchannels[i])) = 1
               /\ inchannels[i] # "F" =>
                     \A k \in Named(outchannels[i]) :
                        /\ out[k].data = TransformedRow(stream, i)
                        /\ out[k].stats.comments
                              = Select(stream, inchannels[i])[1].stats.comments
                        /\ out[k].stats.station
                              = Select(stream, inchannels[i])[1].stats.station )

\* C9: every returned channel carries the configured location, or "A0"
\* when none is configured, and the configured data type, or "adjusted"
\* when none is configured, each independently of the other.
C9_TagOverridesIndependent ==
    (lastOp = "process" /\ raised = "none")
    => \A k \in 1..Len(out) :
          /\ out[k].stats.location = (IF location = None THEN "A0" ELSE location)
          /\ out[k].stats.data_type
                = (IF data_type = None THEN "adjusted" ELSE data_type)

(***************************************************************************)
(* Properties of the availability check                                    *)
(***************************************************************************)
\* the channel codes of a channel list
Codes(chans) == {chans[k] : k \in 1..Len(chans)}

\* C4: can_produce_data returns true exactly when "F" is an input with
\* full coverage, or "H", "E" and "Z" are all inputs with full coverage,
\* or every input has full coverage.  With inputs H, E, Z, F: only F
\* covered gives true, only H, E, Z covered gives true, only H covered
\* gives false.
C4_TieredAvailability ==
    (lastOp = "can_produce_data")
    => ( /\ produced <=>
               \/ "F" \in Codes(inchannels) \cap covered
               \/ {"H", "E", "Z"} \subseteq Codes(inchannels) \cap covered
               \/ Codes(inchannels) \subseteq covered
         /\ inchannels = <<"H", "E", "Z", "F">> =>
               /\ covered = {"F"} => produced
               /\ covered = {"H", "E", "Z"} => produced
               /\ covered = {"H"} => ~produced )

\* C4 witness: the inputs are H, E, Z, F, only H, E and Z are covered,
\* and the check has answered true.
C4_Witness ==
    /\ lastOp = "can_produce_data"
    /\ inchannels = <<"H", "E", "Z", "F">>
    /\ covered = {"H", "E", "Z"}
    /\ produced

====
